---- MODULE Spec2Model ----
(***************************************************************************)
(* A model of edgedb/lang/ir/utils.py: the PathIndex mapping, parameter    *)
(* type inference (infer_arg_types, infer_type), the path combination      *)
(* algebra (flatten_path_combination, combine_field_results), the          *)
(* PathExtractor (reverse extraction, the subquery budget of               *)
(* visit_GraphExpr), LinearPath equality and the path copier copy_path.    *)
(*                                                                         *)
(* Python objects are modelled by their identity: IR nodes, combinations   *)
(* and set objects live in heaps (sequences indexed by object id), and a   *)
(* field holding an object holds its id, so that sharing one object        *)
(* between two owners is visible.  None is the id 0.                       *)
(*                                                                         *)
(* Each component has a specification of its own (SpecCopy, SpecIndex,     *)
(* SpecIndexMerge, SpecFlatten, SpecExtract, SpecVisit, SpecPath,          *)
(* SpecInfer, SpecType); the variables of the other components stay at     *)
(* their idle values.                                                      *)
(***************************************************************************)
EXTENDS Integers, Sequences, FiniteSets, TLC

VARIABLES
    nodes,      \* heap of EntitySet / EntityLink nodes (irast)
    sets,       \* heap of the set objects held in users / rewrite_flags
    ncopy,      \* number of copy_path calls so far
    nmut,       \* number of caller mutations of a metadata set so far
    comb,       \* heap of PathCombination objects
    ret,        \* the value returned by the last call
    call,       \* the last call: its name and arguments
    pre,        \* the combination heap as it was when the last call began
    ext,        \* the PathExtractor's configuration
    idx,        \* the PathIndex objects: key -> stored value
    vsets,      \* heap of the set objects stored in PathIndex entries
    lp,         \* the LinearPath objects
    ops,        \* infer_arg_types: the binary operators visited so far
    arg_types,  \* infer_arg_types: the arg_types dict
    status,     \* infer_arg_types: running, returned, or the error raised
    gx,         \* heap of the GraphExpr nodes of the IR tree being walked
    stack,      \* PathExtractor: the visit_GraphExpr calls in progress
    visits,     \* history: what each visit of a GraphExpr saw and did
    texpr       \* infer_type: the expression it is applied to

vars == << nodes, sets, ncopy, nmut, comb, ret, call, pre, ext, idx, vsets, lp,
           ops, arg_types, status, gx, stack, visits, texpr >>

None == 0
NoName == "None"

(***************************************************************************)
(* Bounds                                                                  *)
(***************************************************************************)
MaxLinks == 2        \* links in the initial entity-set chain
MaxCopies == 2       \* copy_path calls
MaxMutations == 1    \* caller mutations of users / rewrite_flags sets

Elems == {"x", "y"}  \* what a users / rewrite_flags set may hold

(***************************************************************************)
(* Idle values of the components                                           *)
(***************************************************************************)
IdleCopy == nodes = << >> /\ sets = << >> /\ ncopy = 0 /\ nmut = 0
IdleComb == comb = << >> /\ pre = << >>
IdleCall == ret = None /\ call = [fn |-> "none"]
IdleExt == ext = [reverse |-> FALSE, all_fragments |-> FALSE]
IdleIndex == idx = << >> /\ vsets = << >>
IdlePath == lp = << >>
IdleInfer == ops = << >> /\ arg_types = << >> /\ status = "idle"
IdleVisit == gx = << >> /\ stack = << >> /\ visits = << >>
IdleType == texpr = << >>

copyVars == << nodes, sets, ncopy, nmut >>
combVars == << comb, pre >>
callVars == << ret, call >>
indexVars == << idx, vsets >>
inferVars == << ops, arg_types, status >>
visitVars == << gx, stack, visits >>

(***************************************************************************)
(* IR nodes: irast.EntitySet and irast.EntityLink as copy_path builds and  *)
(* reads them.  users and rewrite_flags hold the id of a set object.       *)
(* copyOf is history: the node this node was constructed from.             *)
(***************************************************************************)
EntitySet(concept, users, rewrite_flags, rlink, origin, disjunction, copyOf) ==
    [kind |-> "EntitySet", concept |-> concept, link_proto |-> NoName,
     direction |-> NoName, rlink |-> rlink, source |-> None, target |-> None,
     users |-> users, rewrite_flags |-> rewrite_flags, origin |-> origin,
     disjunction |-> disjunction, copyOf |-> copyOf]

EntityLink(link_proto, direction, source, target, users, rewrite_flags, copyOf) ==
    [kind |-> "EntityLink", concept |-> NoName, link_proto |-> link_proto,
     direction |-> direction, rlink |-> None, source |-> source,
     target |-> target, users |-> users, rewrite_flags |-> rewrite_flags,
     origin |-> None, disjunction |-> {}, copyOf |-> copyOf]

NodeIds == 1..Len(nodes)
IsEntitySet(n) == nodes[n].kind = "EntitySet"
IsEntityLink(n) == nodes[n].kind = "EntityLink"
UsersOf(n) == sets[nodes[n].users]
FlagsOf(n) == sets[nodes[n].rewrite_flags]

ConceptAt(i) == IF i = 0 THEN "Person" ELSE IF i = 1 THEN "Pet" ELSE "Toy"
LinkAt(i) == IF i = 1 THEN "owns" ELSE "plays_with"
DirectionAt(i) == IF i = 1 THEN ">" ELSE "<"

\* The IR handed over by the compiler: a root entity-set followed by k
\* links, node 1 the root, node 2i the i-th link, node 2i+1 its target;
\* every node owns its two metadata sets (set 2n-1 users, set 2n flags),
\* each with one element.
ChainNode(n) ==
    IF n % 2 = 1
    THEN EntitySet(ConceptAt(n \div 2), 2 * n - 1, 2 * n,
                   IF n = 1 THEN None ELSE n - 1, None,
                   {}, None)
    ELSE EntityLink(LinkAt(n \div 2), DirectionAt(n \div 2), n - 1, n + 1,
                    2 * n - 1, 2 * n, None)

InitChain(k) ==
    /\ nodes = [n \in 1..(2 * k + 1) |-> ChainNode(n)]
    /\ sets = [s \in 1..(4 * k + 2) |-> IF s % 2 = 1 THEN {"x"} ELSE {"y"}]
    /\ ncopy = 0
    /\ nmut = 0

(***************************************************************************)
(* copy_path                                                               *)
(***************************************************************************)
\* set.copy(): a new set object with the same elements
SetCopy(hp, s) == Append(hp, hp[s])

\* lines 606-608 and 671-674: the origin recorded on a copy of node p
OriginDirect(ns, p, connect_to_origin) ==
    IF connect_to_origin THEN p ELSE None

OriginFor(ns, p, connect_to_origin) ==
    IF connect_to_origin
    THEN (IF ns[p].origin # None THEN ns[p].origin ELSE p)
    ELSE None

\* lines 637-684: the while loop, one iteration per link of the chain
RECURSIVE CopyLoop(_, _, _, _, _, _)
CopyLoop(ns, hp, rlink, current, result, connect_to_origin) ==
    IF rlink = None
    THEN [nodes |-> ns, sets |-> hp, result |-> result]
    ELSE
      LET r == ns[rlink]
          hp1 == SetCopy(SetCopy(hp, r.users), r.rewrite_flags)
          linkId == Len(ns) + 1
          link == EntityLink(r.link_proto, r.direction, None, current,
                             Len(hp) + 1, Len(hp) + 2, rlink)
          result1 == IF result = None THEN linkId ELSE result
          parent_path == r.source
      IN IF parent_path # None
         THEN
           LET pp == ns[parent_path]
               hp2 == SetCopy(hp1, pp.rewrite_flags)
               parentId == linkId + 1
               parent == EntitySet(pp.concept, pp.users, Len(hp2), None,
                                   OriginFor(ns, parent_path, connect_to_origin),
                                   {linkId}, parent_path)
               linked == [link EXCEPT !.source = parentId]
               ns1 == IF current # None
                      THEN [ns EXCEPT ![current].rlink = linkId]
                      ELSE ns
               ns2 == Append(Append(ns1, linked), parent)
           IN CopyLoop(ns2, hp2, pp.rlink, parentId, result1, connect_to_origin)
         ELSE [nodes |-> Append(ns, link), sets |-> hp1, result |-> result1]

\* a copier that constructs the given node only and leaves it attached to
\* the chain it was given
CopyPathShallow(path, connect_to_origin) ==
    LET p == nodes[path]
        hp1 == SetCopy(SetCopy(sets, p.users), p.rewrite_flags)
        res == [p EXCEPT !.users = Len(sets) + 1,
                         !.rewrite_flags = Len(sets) + 2,
                         !.origin = IF p.kind = "EntitySet"
                                    THEN OriginFor(nodes, path, connect_to_origin)
                                    ELSE None,
                         !.copyOf = path]
    IN [nodes |-> Append(nodes, res), sets |-> hp1, result |-> Len(nodes) + 1]

\* lines 589-686; the BaseRef branch (lines 610-630) is not modelled: the
\* heap holds entity-sets and entity-links only.
CopyPathResult(path, connect_to_origin) ==
    IF nodes[path].kind = "EntitySet"
    THEN LET p == nodes[path]
             hp1 == SetCopy(sets, p.rewrite_flags)
             resId == Len(nodes) + 1
             res == EntitySet(p.concept, p.users, Len(hp1), None,
                              OriginFor(nodes, path, connect_to_origin),
                              {}, path)
         IN CopyLoop(Append(nodes, res), hp1, p.rlink, resId, resId,
                     connect_to_origin)
    ELSE CopyLoop(nodes, sets, path, None, None, connect_to_origin)

copy_path(path, connect_to_origin) ==
    /\ path \in NodeIds /\ ncopy < MaxCopies
    /\ ncopy' = ncopy + 1
    /\ LET out == CopyPathResult(path, connect_to_origin)
       IN /\ nodes' = out.nodes
          /\ sets' = out.sets
          /\ ret' = out.result
    /\ call' = [fn |-> "copy_path", path |-> path,
                connect_to_origin |-> connect_to_origin]
    /\ UNCHANGED << nmut, combVars, ext, indexVars, lp, inferVars, visitVars, texpr >>

\* A later compiler pass changes a node's users set in place
\* (node.users.add(e), node.users.discard(e)).
AddUser(n, e) ==
    /\ n \in NodeIds /\ nmut < MaxMutations
    /\ e \notin UsersOf(n)
    /\ sets' = [sets EXCEPT ![nodes[n].users] = @ \cup {e}]
    /\ nmut' = nmut + 1
    /\ call' = [fn |-> "users.add", path |-> n, elem |-> e]
    /\ UNCHANGED << nodes, ncopy, ret, combVars, ext, indexVars, lp, inferVars, visitVars, texpr >>

RemoveUser(n, e) ==
    /\ n \in NodeIds /\ nmut < MaxMutations
    /\ e \in UsersOf(n)
    /\ sets' = [sets EXCEPT ![nodes[n].users] = @ \ {e}]
    /\ nmut' = nmut + 1
    /\ call' = [fn |-> "users.discard", path |-> n, elem |-> e]
    /\ UNCHANGED << nodes, ncopy, ret, combVars, ext, indexVars, lp, inferVars, visitVars, texpr >>

AddFlag(n, e) ==
    /\ n \in NodeIds /\ nmut < MaxMutations
    /\ e \notin FlagsOf(n)
    /\ sets' = [sets EXCEPT ![nodes[n].rewrite_flags] = @ \cup {e}]
    /\ nmut' = nmut + 1
    /\ call' = [fn |-> "rewrite_flags.add", path |-> n, elem |-> e]
    /\ UNCHANGED << nodes, ncopy, ret, combVars, ext, indexVars, lp, inferVars, visitVars, texpr >>

RemoveFlag(n, e) ==
    /\ n \in NodeIds /\ nmut < MaxMutations
    /\ e \in FlagsOf(n)
    /\ sets' = [sets EXCEPT ![nodes[n].rewrite_flags] = @ \ {e}]
    /\ nmut' = nmut + 1
    /\ call' = [fn |-> "rewrite_flags.discard", path |-> n, elem |-> e]
    /\ UNCHANGED << nodes, ncopy, ret, combVars, ext, indexVars, lp, inferVars, visitVars, texpr >>

InitCopy ==
    /\ \E k \in 0..MaxLinks : InitChain(k)
    /\ IdleComb /\ IdleCall /\ IdleExt /\ IdleVisit /\ IdleType
    /\ IdleIndex /\ IdlePath /\ IdleInfer

NextCopy ==
    \E path \in NodeIds, c \in BOOLEAN : copy_path(path, c)

SpecCopy == InitCopy /\ [][NextCopy]_vars

NextCopyMutate ==
    \/ \E path \in NodeIds, c \in BOOLEAN : copy_path(path, c)
    \/ \E n \in NodeIds, e \in Elems : AddUser(n, e)
    \/ \E n \in NodeIds, e \in Elems : RemoveUser(n, e)
    \/ \E n \in NodeIds, e \in Elems : AddFlag(n, e)
    \/ \E n \in NodeIds, e \in Elems : RemoveFlag(n, e)

SpecCopyMutate == InitCopy /\ [][NextCopyMutate]_vars

(***************************************************************************)
(* Claims about copy_path                                                  *)
(***************************************************************************)
\* the step just taken changed the users (rewrite_flags) set through node n
MutatedUsers(n) ==
    call'.fn \in {"users.add", "users.discard"} /\ nmut' = nmut + 1
    /\ call'.path = n

MutatedFlags(n) ==
    call'.fn \in {"rewrite_flags.add", "rewrite_flags.discard"}
    /\ nmut' = nmut + 1 /\ call'.path = n

\* C1: copy independence.  For every node c that copy_path constructed from
\* a source node s (the copied entity-set, a copied parent or a copied
\* link), a change of c's users or rewrite_flags set leaves the same set of
\* s as it was, and a change of s's set leaves c's set as it was.
C1_CopyIndependence ==
    [][\A c \in NodeIds :
         LET s == nodes[c].copyOf
         IN s # None =>
              /\ MutatedUsers(c) => sets'[nodes[s].users] = sets[nodes[s].users]
              /\ MutatedUsers(s) => sets'[nodes[c].users] = sets[nodes[c].users]
              /\ MutatedFlags(c) =>
                    sets'[nodes[s].rewrite_flags] = sets[nodes[s].rewrite_flags]
              /\ MutatedFlags(s) =>
                    sets'[nodes[c].rewrite_flags] = sets[nodes[c].rewrite_flags]
      ]_vars

\* the origin a tracked copy of node s must record
ExpectedOrigin(s) == IF nodes[s].origin # None THEN nodes[s].origin ELSE s

\* C9: origin tracking.  Every entity-set a copy_path call with
\* connect_to_origin constructs records the source node's origin if that is
\* set and the source node otherwise; and in every state the origin of an
\* entity-set is a node without an origin of its own.
C9_OriginTracking ==
    /\ [][(call'.fn = "copy_path" /\ ncopy' = ncopy + 1
           /\ call'.connect_to_origin) =>
            \A n \in (Len(nodes) + 1)..Len(nodes') :
                nodes'[n].kind = "EntitySet" =>
                    nodes'[n].origin = ExpectedOrigin(nodes'[n].copyOf)]_vars
    /\ [](\A n \in NodeIds :
            nodes[n].origin # None => nodes[nodes[n].origin].origin = None)

\* a tracked copy of a tracked copy: its origin is the original, not the
\* intermediate copy it was made from
C9_Witness ==
    \E n \in NodeIds :
        /\ IsEntitySet(n) /\ nodes[n].copyOf # None
        /\ nodes[nodes[n].copyOf].copyOf # None
        /\ nodes[nodes[n].copyOf].origin # None
        /\ nodes[n].origin = nodes[nodes[n].copyOf].origin
        /\ nodes[n].origin # nodes[n].copyOf

\* the chain from node n up to its root as the fields of the heap ns give
\* it: the rlink of an entity-set, the source of an entity-link
RECURSIVE ChainUp(_, _)
ChainUp(ns, n) ==
    LET up == IF ns[n].kind = "EntitySet" THEN ns[n].rlink ELSE ns[n].source
    IN IF up = None THEN << n >> ELSE << n >> \o ChainUp(ns, up)

LinksOf(ns, chain) == {i \in DOMAIN chain : ns[chain[i]].kind = "EntityLink"}

\* C12: copy_path preserves the topology with new nodes.  For a call
\* copy_path(path), with the source chain the nodes from path up to its
\* root: the chain from the result up to its root has as many nodes, and so
\* as many links, as the source chain; its nodes are the nodes the call
\* constructed, none of them a node that existed before; node by node it has
\* the kind, concept, link_proto and direction of the source chain; the
\* source of a copied link is the copied parent above it and its target the
\* copied child below it (None for the link the copy starts from, whose
\* target is not part of the chain); the rlink of a copied child is the
\* copied link above it; the disjunction of a copied parent is the set of
\* the one copied link below it; and the rlink, source and target of every
\* node that existed before the call are as they were.
C12_CopyTopology ==
    [][(call'.fn = "copy_path" /\ ncopy' = ncopy + 1) =>
        LET src == ChainUp(nodes, call'.path)
            cpy == ChainUp(nodes', ret')
            old == 1..Len(nodes)
        IN /\ ret' \in DOMAIN nodes'
           /\ Len(cpy) = Len(src)
           /\ Cardinality(LinksOf(nodes', cpy)) = Cardinality(LinksOf(nodes, src))
           /\ {cpy[i] : i \in DOMAIN cpy} = DOMAIN nodes' \ old
           /\ \A i \in DOMAIN cpy :
                 LET c == nodes'[cpy[i]]
                     s == nodes[src[i]]
                 IN /\ cpy[i] \notin old
                    /\ c.kind = s.kind /\ c.concept = s.concept
                    /\ c.link_proto = s.link_proto /\ c.direction = s.direction
                    /\ c.kind = "EntityLink" =>
                          /\ i < Len(cpy) /\ c.source = cpy[i + 1]
                          /\ nodes'[cpy[i + 1]].kind = "EntitySet"
                          /\ nodes'[cpy[i + 1]].disjunction = {cpy[i]}
                          /\ c.target = (IF i > 1 THEN cpy[i - 1] ELSE None)
                          /\ i > 1 => /\ nodes'[cpy[i - 1]].kind = "EntitySet"
                                      /\ nodes'[cpy[i - 1]].rlink = cpy[i]
                    /\ c.kind = "EntitySet" =>
                          /\ c.rlink = (IF i < Len(cpy) THEN cpy[i + 1] ELSE None)
                          /\ i < Len(cpy) => nodes'[cpy[i + 1]].kind = "EntityLink"
           /\ \A n \in old :
                 /\ nodes'[n].rlink = nodes[n].rlink
                 /\ nodes'[n].source = nodes[n].source
                 /\ nodes'[n].target = nodes[n].target
      ]_vars

\* the leaf of a chain of two links has been copied: the result is a new
\* entity-set at the bottom of a chain of five new nodes
C12_Witness ==
    /\ call.fn = "copy_path" /\ ret # None
    /\ IsEntitySet(ret) /\ IsEntitySet(call.path)
    /\ nodes[ret].copyOf = call.path
    /\ Len(ChainUp(nodes, call.path)) = 5
    /\ Len(ChainUp(nodes, ret)) = 5

(***************************************************************************)
(* PathIndex (a dict subclass).  A stored value is a reference to a set    *)
(* object of the vsets heap, or (were __setitem__ not to coerce) a bare    *)
(* node.                                                                   *)
(***************************************************************************)
MaxSetObjs == 3                 \* set objects ever stored in indices

Indices == {1, 2}               \* the PathIndex objects
Keys == {"k1", "k2"}            \* str / LinearPath keys
BadKeys == {"bad"}              \* a key that is neither a LinearPath nor a str
Values == {"a", "b"}            \* IR nodes put into an index

Absent == [tag |-> "absent", ref |-> 0, node |-> NoName]
StoredSet(r) == [tag |-> "set", ref |-> r, node |-> NoName]
BareNode(v) == [tag |-> "node", ref |-> 0, node |-> v]

Has(ix, i, k) == ix[i][k].tag # "absent"

\* a __setitem__ that stores the value as given
SetItemNoCoerce(st, i, key, value) ==
    [st EXCEPT !.idx[i][key] = value]

\* lines 30-37: PathIndex.__setitem__ on a valid key; st = [idx, vsets]
SetItemOp(st, i, key, value) ==
    IF value.tag # "set"
    THEN [idx |-> [st.idx EXCEPT ![i][key] = StoredSet(Len(st.vsets) + 1)],
          vsets |-> Append(st.vsets, {value.node})]
    ELSE [st EXCEPT !.idx[i][key] = value]

\* lines 25-28: the body of update's loop for one item (k, v) of other.
\* set.update on a set object changes that object; a stored value that is
\* no set has no update method, and the call ends there.
UpdateItem(st, i, k, v) ==
    IF Has(st.idx, i, k)
    THEN IF st.idx[i][k].tag = "set" /\ v.tag = "set"
         THEN [st EXCEPT !.vsets[st.idx[i][k].ref] = @ \cup st.vsets[v.ref]]
         ELSE st
    ELSE SetItemOp(st, i, k, v)

\* lines 23-28: PathIndex.update, visiting other's items in the order ks
RECURSIVE UpdateOp(_, _, _, _)
UpdateOp(st, i, j, ks) ==
    IF ks = << >> THEN st
    ELSE UpdateOp(UpdateItem(st, i, Head(ks), st.idx[j][Head(ks)]),
                  i, j, Tail(ks))

\* the orders in which a dict with the key set K may be iterated
Orders(K) ==
    {ks \in [1..Cardinality(K) -> K] : \A a, b \in 1..Cardinality(K) :
                                          ks[a] = ks[b] => a = b}

\* index[key] = value with value a bare node
SetItemNode(i, key, v) ==
    /\ Len(vsets) < MaxSetObjs
    /\ IF key \in Keys
       THEN LET out == SetItemOp([idx |-> idx, vsets |-> vsets], i, key,
                                 BareNode(v))
            IN idx' = out.idx /\ vsets' = out.vsets
       ELSE UNCHANGED << idx, vsets >>      \* raise TypeError
    /\ call' = [fn |-> "__setitem__", self |-> i, key |-> key,
                isset |-> FALSE, node |-> v, elems |-> {}]
    /\ UNCHANGED << copyVars, combVars, ret, ext, lp, inferVars, visitVars, texpr >>

\* index[key] = {...}: the caller builds a set object and stores it
SetItemSet(i, key, S) ==
    /\ Len(vsets) < MaxSetObjs
    /\ IF key \in Keys
       THEN LET out == SetItemOp([idx |-> idx, vsets |-> Append(vsets, S)],
                                 i, key, StoredSet(Len(vsets) + 1))
            IN idx' = out.idx /\ vsets' = out.vsets
       ELSE UNCHANGED << idx, vsets >>      \* raise TypeError
    /\ call' = [fn |-> "__setitem__", self |-> i, key |-> key,
                isset |-> TRUE, node |-> NoName, elems |-> S]
    /\ UNCHANGED << copyVars, combVars, ret, ext, lp, inferVars, visitVars, texpr >>

\* index.update(other), other a PathIndex
Update(i, j) ==
    /\ \E ks \in Orders({k \in Keys : Has(idx, j, k)}) :
          LET out == UpdateOp([idx |-> idx, vsets |-> vsets], i, j, ks)
          IN idx' = out.idx /\ vsets' = out.vsets
    /\ call' = [fn |-> "update", self |-> i, other |-> j]
    /\ UNCHANGED << copyVars, combVars, ret, ext, lp, inferVars, visitVars, texpr >>

InitIndex ==
    /\ idx = [i \in Indices |-> [k \in Keys |-> Absent]]
    /\ vsets = << >>
    /\ IdleCopy /\ IdleComb /\ IdleCall /\ IdleExt /\ IdleVisit /\ IdleType /\ IdlePath /\ IdleInfer

NextIndex ==
    \/ \E i \in Indices, k \in Keys \cup BadKeys, v \in Values :
          SetItemNode(i, k, v)
    \/ \E i \in Indices, k \in Keys \cup BadKeys, S \in SUBSET Values :
          SetItemSet(i, k, S)
    \/ \E i \in Indices, j \in Indices : Update(i, j)

SpecIndex == InitIndex /\ [][NextIndex]_vars

(***************************************************************************)
(* Claims about PathIndex                                                  *)
(***************************************************************************)
ValueAt(ix, hp, i, k) == hp[ix[i][k].ref]

\* C2: every stored value is a set, never a bare node; storing a non-set
\* value stores the one-element set holding it; and update(other) leaves,
\* under every key of both indices, the union of the two value sets the
\* indices held, and under a key of only one of them that index's value set.
C2_PathIndexValues ==
    /\ [](\A i \in Indices, k \in Keys : idx[i][k].tag \in {"absent", "set"})
    /\ [][(call'.fn = "__setitem__" /\ ~call'.isset /\ call'.key \in Keys) =>
            /\ idx'[call'.self][call'.key].tag = "set"
            /\ ValueAt(idx', vsets', call'.self, call'.key) = {call'.node}
         ]_vars
    /\ [][call'.fn = "update" =>
            \A k \in Keys :
              LET i == call'.self
                  j == call'.other
              IN /\ Has(idx', i, k) <=> (Has(idx, i, k) \/ Has(idx, j, k))
                 /\ (Has(idx, i, k) /\ Has(idx, j, k)) =>
                       ValueAt(idx', vsets', i, k) =
                          ValueAt(idx, vsets, i, k) \cup ValueAt(idx, vsets, j, k)
                 /\ (Has(idx, i, k) /\ ~Has(idx, j, k)) =>
                       ValueAt(idx', vsets', i, k) = ValueAt(idx, vsets, i, k)
                 /\ (~Has(idx, i, k) /\ Has(idx, j, k)) =>
                       ValueAt(idx', vsets', i, k) = ValueAt(idx, vsets, j, k)
         ]_vars

\* an update has merged a key both indices held (two set objects, the
\* receiver's now holding both nodes) and taken over a key only other held
C2_Witness ==
    /\ call.fn = "update" /\ call.self # call.other
    /\ \E k, m \in Keys :
         /\ Has(idx, call.self, k) /\ Has(idx, call.other, k)
         /\ idx[call.self][k].ref # idx[call.other][k].ref
         /\ ValueAt(idx, vsets, call.other, k) = {"b"}
         /\ ValueAt(idx, vsets, call.self, k) = {"a", "b"}
         /\ m # k /\ Has(idx, call.other, m)
         /\ idx[call.self][m] = idx[call.other][m]

\* Three indices: one that receives merges and two that are merged into it.
MergeIndices == {1, 2, 3}

InitIndexMerge ==
    /\ idx = [i \in MergeIndices |-> [k \in Keys |-> Absent]]
    /\ vsets = << >>
    /\ IdleCopy /\ IdleComb /\ IdleCall /\ IdleExt /\ IdleVisit /\ IdleType
    /\ IdlePath /\ IdleInfer

NextIndexMerge ==
    \/ \E i \in MergeIndices, k \in Keys, v \in Values : SetItemNode(i, k, v)
    \/ \E i \in MergeIndices, j \in MergeIndices : Update(i, j)

SpecIndexMerge == InitIndexMerge /\ [][NextIndexMerge]_vars

\* index j holds after the step the keys and the value sets it held before
KeepsValues(j) ==
    \A k \in Keys :
        /\ Has(idx', j, k) <=> Has(idx, j, k)
        /\ Has(idx, j, k) =>
              ValueAt(idx', vsets', j, k) = ValueAt(idx, vsets, j, k)

\* C14: merging does not alias or disturb the merged-in index:
\* update(other) leaves the keys and the value sets of other as they were,
\* and an insertion or update on the receiving index that follows a merge
\* of other into it leaves the value sets of other as they were.
C14_MergeKeepsOther ==
    /\ [][(call'.fn = "update" /\ call'.other # call'.self) =>
            KeepsValues(call'.other)]_vars
    /\ [][(call.fn = "update" /\ call.other # call.self
           /\ call'.fn \in {"__setitem__", "update"}
           /\ call'.self = call.self) =>
            KeepsValues(call.other)]_vars

(***************************************************************************)
(* Path combinations: irast.Disjunction and irast.Conjunction objects,     *)
(* each holding a frozenset of members.  A member is a path that is not a  *)
(* combination (an entity-set, a reference, ...) or another combination.   *)
(***************************************************************************)
MaxCombs == 3                   \* combination objects ever constructed

PathIds == {1, 2}               \* the paths that are not combinations
Classes == {"Disjunction", "Conjunction"}

Path(p) == [t |-> "path", id |-> p]
Comb(c) == [t |-> "comb", id |-> c]
NoMember == [t |-> "none", id |-> 0]
IsComb(m) == m.t = "comb"
CombIds == 1..Len(comb)
Members == {Path(p) : p \in PathIds} \cup {Comb(c) : c \in CombIds}

\* combination(paths=frozenset(paths))
Combination(cls, paths) == [cls |-> cls, paths |-> paths]

\* lines 271-272: the test deciding that member m of e is taken apart
Absorbs(hp, e, m, recursive) ==
    IsComb(m) /\ (hp[m.id].cls = hp[e].cls \/ recursive)

\* a flatten that never descends: every member taken apart gives its
\* members as they are
FlattenShallow(hp, e, recursive) ==
    [hp EXCEPT ![e].paths =
        UNION {IF Absorbs(hp, e, m, recursive) THEN hp[m.id].paths ELSE {m}
               : m \in hp[e].paths}]

RECURSIVE FlattenSameClassOnly(_, _, _)
\* a flatten that takes apart members of expr's own class only, in
\* recursive mode as well
FlattenSameClassOnly(hp, e, recursive) ==
    LET same == {m \in hp[e].paths : IsComb(m) /\ hp[m.id].cls = hp[e].cls}
        sub(m) == IF recursive
                  THEN FlattenSameClassOnly(hp, m.id, TRUE)[m.id].paths
                  ELSE hp[m.id].paths
    IN [hp EXCEPT ![e].paths =
          (hp[e].paths \ same) \cup UNION {sub(m) : m \in same}]

RECURSIVE FlattenOp(_, _, _)
RECURSIVE FlattenMembers(_, _, _, _, _)

\* lines 270-279: the loop over expr.paths; todo are the members still to
\* be visited, acc the local set paths.  The nested call changes the
\* member's own object before its paths are read.
FlattenMembers(hp, e, todo, acc, recursive) ==
    IF todo = {} THEN [heap |-> hp, paths |-> acc]
    ELSE LET m == CHOOSE x \in todo : TRUE
         IN IF Absorbs(hp, e, m, recursive)
            THEN IF recursive
                 THEN LET hp1 == FlattenOp(hp, m.id, TRUE)
                      IN FlattenMembers(hp1, e, todo \ {m},
                                        acc \cup hp1[m.id].paths, recursive)
                 ELSE FlattenMembers(hp, e, todo \ {m},
                                     acc \cup hp[m.id].paths, recursive)
            ELSE FlattenMembers(hp, e, todo \ {m}, acc \cup {m}, recursive)

\* lines 268-282: flatten_path_combination on the heap hp; expr.paths is
\* assigned at the end, the object returned is expr
FlattenOp(hp, e, recursive) ==
    LET out == FlattenMembers(hp, e, hp[e].paths, {}, recursive)
    IN [out.heap EXCEPT ![e].paths = out.paths]

\* a combine_field_results that wraps a single result as well
CombineAlwaysWrap(hp, results, combination, flatten) ==
    IF Cardinality(results) = 0
    THEN [heap |-> hp, ret |-> NoMember]
    ELSE LET hp1 == Append(hp, Combination(combination, results))
         IN [heap |-> IF flatten THEN FlattenOp(hp1, Len(hp1), FALSE) ELSE hp1,
             ret |-> Comb(Len(hp1))]

\* lines 295-308: PathExtractor.combine_field_results
CombineOp(hp, results, combination, flatten) ==
    IF Cardinality(results) = 1
    THEN [heap |-> hp, ret |-> CHOOSE r \in results : TRUE]
    ELSE IF Cardinality(results) = 0
    THEN [heap |-> hp, ret |-> NoMember]
    ELSE LET hp1 == Append(hp, Combination(combination, results))
         IN [heap |-> IF flatten THEN FlattenOp(hp1, Len(hp1), FALSE) ELSE hp1,
             ret |-> Comb(Len(hp1))]

combine_field_results(results, combination, flatten) ==
    /\ Cardinality(results) > 1 => Len(comb) < MaxCombs
    /\ LET out == CombineOp(comb, results, combination, flatten)
       IN /\ comb' = out.heap
          /\ ret' = out.ret
    /\ pre' = comb
    /\ call' = [fn |-> "combine_field_results", results |-> results,
                combination |-> combination, flatten |-> flatten,
                expr |-> 0, recursive |-> FALSE]
    /\ UNCHANGED << copyVars, ext, indexVars, lp, inferVars, visitVars, texpr >>

flatten_path_combination(expr, recursive) ==
    /\ expr \in CombIds
    /\ comb' = FlattenOp(comb, expr, recursive)
    /\ ret' = Comb(expr)
    /\ pre' = comb
    /\ call' = [fn |-> "flatten_path_combination", results |-> {},
                combination |-> NoName, flatten |-> FALSE,
                expr |-> expr, recursive |-> recursive]
    /\ UNCHANGED << copyVars, ext, indexVars, lp, inferVars, visitVars, texpr >>

InitFlatten ==
    /\ comb = << >> /\ pre = << >>
    /\ ret = NoMember /\ call = [fn |-> "none"]
    /\ IdleCopy /\ IdleExt /\ IdleVisit /\ IdleType /\ IdleIndex /\ IdlePath /\ IdleInfer

\* The class and the flatten option are read only when there is more than
\* one result (lines 303-308): with fewer the call is made with the defaults
\* of line 296.
NextFlatten ==
    \/ \E results \in {{}} \cup {{m} : m \in Members} :
          combine_field_results(results, "Disjunction", TRUE)
    \/ /\ Len(comb) < MaxCombs
       /\ \E results \in SUBSET Members, c \in Classes, f \in BOOLEAN :
             Cardinality(results) > 1 /\ combine_field_results(results, c, f)
    \/ \E expr \in CombIds, r \in BOOLEAN : flatten_path_combination(expr, r)

SpecFlatten == InitFlatten /\ [][NextFlatten]_vars

(***************************************************************************)
(* Claims about the combination algebra                                    *)
(***************************************************************************)
Flattened == call.fn = "flatten_path_combination"
Combined == call.fn = "combine_field_results"

\* the member set a further flatten_path_combination(e, r) leaves in e
Again(hp, e, r) == FlattenOp(hp, e, r)[e].paths

IsFlat(hp, e) == \A m \in hp[e].paths : ~IsComb(m)

SameClass(hp, e, m) == IsComb(m) /\ hp[m.id].cls = hp[e].cls

\* a member of e of e's class has itself a member of that class
NestedSameClass(hp, e) ==
    \E m \in hp[e].paths :
        SameClass(hp, e, m) /\ \E m2 \in hp[m.id].paths : SameClass(hp, e, m2)

\* the member set with every direct member of e's class replaced by its
\* own members
DirectFlat(hp, e) ==
    UNION {IF SameClass(hp, e, m) THEN hp[m.id].paths ELSE {m}
           : m \in hp[e].paths}

\* the paths that are not combinations at and below member m
RECURSIVE LeavesOf(_, _)
LeavesOf(hp, m) ==
    IF IsComb(m) THEN UNION {LeavesOf(hp, x) : x \in hp[m.id].paths} ELSE {m}

\* C3 as stated: in both modes a second flatten leaves the member set the
\* first one produced, and flattening a combination without combination
\* members leaves its member set.
C3_Original ==
    Flattened =>
        /\ Again(comb, call.expr, call.recursive) = comb[call.expr].paths
        /\ IsFlat(pre, call.expr) =>
               comb[call.expr].paths = pre[call.expr].paths

\* C3, amended: flatten idempotence.  A second flatten leaves the member
\* set the first one produced when recursive is on, and when recursive is
\* off provided no member of x's class has itself a member of that class;
\* flattening a combination without combination members leaves its
\* member set.
C3_FlattenIdempotent ==
    Flattened =>
        /\ (call.recursive \/ ~NestedSameClass(pre, call.expr)) =>
               Again(comb, call.expr, call.recursive) = comb[call.expr].paths
        /\ IsFlat(pre, call.expr) =>
               comb[call.expr].paths = pre[call.expr].paths

\* a recursive flatten has taken apart a combination nested two deep
C3_Witness ==
    /\ Flattened /\ call.recursive
    /\ NestedSameClass(pre, call.expr)
    /\ comb[call.expr].paths # pre[call.expr].paths
    /\ IsFlat(comb, call.expr)

\* C4 as stated: no sub-result gives None, one sub-result gives that
\* sub-result itself, N > 1 sub-results give a combination of the requested
\* class with exactly N members.
C4_Original ==
    Combined =>
        LET N == Cardinality(call.results)
        IN /\ N = 0 => ret = NoMember /\ comb = pre
           /\ N = 1 => ret \in call.results /\ comb = pre
           /\ N > 1 => /\ IsComb(ret)
                       /\ comb[ret.id].cls = call.combination
                       /\ Cardinality(comb[ret.id].paths) = N

\* C4, amended: combination collapse.  No sub-result gives None; one
\* sub-result gives that sub-result itself; N > 1 sub-results give a new
\* combination of the requested class whose members are the sub-results,
\* each sub-result that is a combination of the requested class replaced by
\* its own members unless flatten is off: exactly N members when flatten is
\* off or no sub-result is a combination of the requested class.
C4_CombinationCollapse ==
    Combined =>
        LET N == Cardinality(call.results)
            sameClass == {r \in call.results :
                            IsComb(r) /\ pre[r.id].cls = call.combination}
        IN /\ N = 0 => ret = NoMember /\ comb = pre
           /\ N = 1 => ret \in call.results /\ comb = pre
           /\ N > 1 =>
                /\ ret = Comb(Len(pre) + 1) /\ Len(comb) = Len(pre) + 1
                /\ comb[ret.id].cls = call.combination
                /\ comb[ret.id].paths =
                      IF call.flatten
                      THEN (call.results \ sameClass)
                           \cup UNION {pre[r.id].paths : r \in sameClass}
                      ELSE call.results
                /\ (~call.flatten \/ sameClass = {}) =>
                      Cardinality(comb[ret.id].paths) = N

\* two sub-results, one of them a combination of the requested class, have
\* been combined and flattened into a member set of another size
C4_Witness ==
    /\ Combined /\ call.flatten /\ Cardinality(call.results) = 2
    /\ \E r \in call.results : IsComb(r) /\ pre[r.id].cls = call.combination
    /\ IsComb(ret) /\ Cardinality(comb[ret.id].paths) = 3

\* C10 as stated: in both modes the members of expr's class are replaced by
\* their own members, every other member (a member of the opposite class
\* too) is still a member, and expr itself is returned.
C10_Original ==
    Flattened =>
        /\ ret = Comb(call.expr)
        /\ \A m \in pre[call.expr].paths :
              IF SameClass(pre, call.expr, m)
              THEN call.recursive \/ pre[m.id].paths \subseteq comb[call.expr].paths
              ELSE m \in comb[call.expr].paths

\* C10, amended: with recursive off the members of expr's class are
\* replaced by their own members and every other member, a member of the
\* opposite class too, is still a single member; with recursive on every
\* member that is a combination, of either class, is replaced, at every
\* depth, so that the members left are the paths at and below expr that are
\* not combinations; expr itself is returned.
C10_FlattenMembers ==
    Flattened =>
        /\ ret = Comb(call.expr)
        /\ ~call.recursive =>
              comb[call.expr].paths = DirectFlat(pre, call.expr)
        /\ call.recursive =>
              comb[call.expr].paths = LeavesOf(pre, Comb(call.expr))

\* a recursive flatten has taken apart a member of the opposite class
C10_Witness ==
    /\ Flattened /\ call.recursive
    /\ \E m \in pre[call.expr].paths :
          /\ IsComb(m) /\ pre[m.id].cls # pre[call.expr].cls
          /\ pre[m.id].paths # {}
          /\ m \notin comb[call.expr].paths
          /\ pre[m.id].paths \subseteq comb[call.expr].paths

(***************************************************************************)
(* PathExtractor on entity-sets and entity-links                           *)
(***************************************************************************)
Node(n) == [t |-> "node", id |-> n]

\* lines 286-293: PathExtractor.__init__
PathExtractor(reverse, all_fragments) ==
    [reverse |-> reverse, all_fragments |-> all_fragments]

\* lines 354-359: the list paths, from the visited entity-set to the root
RECURSIVE RootWalk(_, _)
RootWalk(ns, n) ==
    IF ns[n].rlink # None
    THEN << n >> \o RootWalk(ns, ns[ns[n].rlink].source)
    ELSE << n >>

\* a reverse visit that forgets the walk and answers the visited node
VisitEntitySetNoWalk(hp, ns, self, path) ==
    [heap |-> hp, ret |-> Node(path)]

\* lines 350-366: PathExtractor.visit_EntitySet
VisitEntitySetOp(hp, ns, self, path) ==
    IF self.reverse
    THEN LET paths == RootWalk(ns, path)
         IN IF Len(paths) = 1 \/ ~self.all_fragments
            THEN [heap |-> hp, ret |-> Node(paths[Len(paths)])]
            ELSE [heap |-> Append(hp, Combination("Disjunction",
                               {Node(paths[i]) : i \in 1..Len(paths)})),
                  ret |-> Comb(Len(hp) + 1)]
    ELSE [heap |-> hp, ret |-> Node(path)]

\* lines 386-395: PathExtractor.visit_EntityLink
VisitEntityLinkOp(hp, ns, self, path) ==
    IF self.reverse /\ ns[path].source # None
    THEN LET paths == RootWalk(ns, ns[path].source)
         IN [heap |-> hp, ret |-> Node(paths[Len(paths)])]
    ELSE [heap |-> hp, ret |-> Node(path)]

\* lines 689-690: extract_paths on an entity-set or an entity-link, with a
\* new extractor
extract_paths(path, reverse, all_fragments) ==
    /\ path \in NodeIds
    /\ LET self == PathExtractor(reverse, all_fragments)
           out == IF nodes[path].kind = "EntitySet"
                  THEN VisitEntitySetOp(comb, nodes, self, path)
                  ELSE VisitEntityLinkOp(comb, nodes, self, path)
       IN /\ Len(out.heap) <= MaxCombs
          /\ comb' = out.heap
          /\ ret' = out.ret
          /\ ext' = self
    /\ pre' = comb
    /\ call' = [fn |-> "extract_paths", path |-> path]
    /\ UNCHANGED << copyVars, indexVars, lp, inferVars, visitVars, texpr >>

InitExtract ==
    /\ \E k \in 0..MaxLinks : InitChain(k)
    /\ comb = << >> /\ pre = << >>
    /\ ret = NoMember /\ call = [fn |-> "none"]
    /\ IdleExt /\ IdleVisit /\ IdleType /\ IdleIndex /\ IdlePath /\ IdleInfer

NextExtract ==
    \E path \in NodeIds, r \in BOOLEAN, a \in BOOLEAN : extract_paths(path, r, a)

SpecExtract == InitExtract /\ [][NextExtract]_vars

(***************************************************************************)
(* Claims about reverse path extraction                                    *)
(***************************************************************************)
VisitedEntitySet ==
    call.fn = "extract_paths" /\ IsEntitySet(call.path) /\ ext.reverse

IsRoot(n) == IsEntitySet(n) /\ nodes[n].rlink = None

\* the number of entity-sets from n up to its root
RECURSIVE ChainLen(_)
ChainLen(n) ==
    IF nodes[n].rlink = None THEN 1
    ELSE 1 + ChainLen(nodes[nodes[n].rlink].source)

\* C8 as stated: a reverse visit of an entity-set returns its root when
\* all_fragments is off, and with all_fragments on and more than one node
\* in the chain a Disjunction whose members are all roots.
C8_Original ==
    VisitedEntitySet =>
        /\ ~ext.all_fragments => ret.t = "node" /\ IsRoot(ret.id)
        /\ (ext.all_fragments /\ nodes[call.path].rlink # None) =>
              /\ IsComb(ret) /\ comb[ret.id].cls = "Disjunction"
              /\ \A m \in comb[ret.id].paths : m.t = "node" /\ IsRoot(m.id)

\* C8, amended: a reverse visit of an entity-set returns the root of its
\* rlink chain when all_fragments is off (or the chain is the node alone);
\* with all_fragments on and more than one node in the chain it returns a
\* new Disjunction whose members are the entity-sets of the chain, each one
\* once: the visited entity-set, the source of the rlink of every member
\* that has one, and so exactly one root.
C8_ReverseExtraction ==
    VisitedEntitySet =>
        /\ (~ext.all_fragments \/ nodes[call.path].rlink = None) =>
              /\ ret.t = "node" /\ IsRoot(ret.id) /\ comb = pre
              /\ (nodes[call.path].rlink = None => ret.id = call.path)
        /\ (ext.all_fragments /\ nodes[call.path].rlink # None) =>
              /\ ret = Comb(Len(pre) + 1) /\ comb[ret.id].cls = "Disjunction"
              /\ LET ms == comb[ret.id].paths
                 IN /\ Node(call.path) \in ms
                    /\ \A m \in ms :
                          /\ m.t = "node" /\ IsEntitySet(m.id)
                          /\ nodes[m.id].rlink # None =>
                                Node(nodes[nodes[m.id].rlink].source) \in ms
                    /\ Cardinality({m \in ms : IsRoot(m.id)}) = 1
                    /\ Cardinality(ms) = ChainLen(call.path)

\* the leaf of a chain of two links has been visited in reverse with
\* all_fragments on: the Disjunction holds the leaf, the middle and the root
C8_Witness ==
    /\ VisitedEntitySet /\ ext.all_fragments
    /\ ChainLen(call.path) = 3
    /\ IsComb(ret) /\ Cardinality(comb[ret.id].paths) = 3
    /\ Node(call.path) \in comb[ret.id].paths

(***************************************************************************)
(* PathExtractor on query expressions: visit_GraphExpr and the subquery    *)
(* budget recurse_subqueries.  The visit is a recursion; it is modelled    *)
(* with its call stack, one step per self.visit(...) made by a             *)
(* visit_GraphExpr in progress and one per return.                         *)
(***************************************************************************)
MaxGraphs == 3                  \* GraphExpr nodes in the IR tree
MaxBudget == 2                  \* largest initial recurse_subqueries

GraphIds == 1..Len(gx)
SubgraphRef(g) == [t |-> "ref", id |-> g]
Graph(g) == [t |-> "graph", id |-> g]

\* irast.GraphExpr, the fields visit_GraphExpr reads
GraphExpr(generator, selector, grouper, sorter, set_op, set_op_larg, set_op_rarg) ==
    [generator |-> generator, selector |-> selector, grouper |-> grouper,
     sorter |-> sorter, set_op |-> set_op, set_op_larg |-> set_op_larg,
     set_op_rarg |-> set_op_rarg]

\* lines 286-293: PathExtractor.__init__, the options the walk reads
PathExtractorOn(recurse_subqueries, extract_subgraph_refs) ==
    [reverse |-> FALSE, all_fragments |-> FALSE,
     recurse_subqueries |-> recurse_subqueries,
     extract_subgraph_refs |-> extract_subgraph_refs]

\* lines 321-338: what visit_GraphExpr hands to self.visit, in order
GraphOperands(e) ==
    (IF e.generator # NoMember THEN << e.generator >> ELSE << >>)
    \o e.selector \o e.grouper \o e.sorter
    \o (IF e.set_op # NoName
        THEN << Graph(e.set_op_larg), Graph(e.set_op_rarg) >> ELSE << >>)

\* a budget test that stops at zero only
ExhaustedAtZero(budget) == budget = 0

\* line 314: the budget is exhausted
Exhausted(budget) == budget <= 0

\* a visit of a GraphExpr as it is recorded in visits
Visit(path, depth, entry) ==
    [path |-> path, depth |-> depth, entry |-> entry, exit |-> entry,
     returned |-> FALSE, ret |-> NoMember, operands |-> {}]

Frame(path, visit) == [path |-> path, visit |-> visit, pos |-> 1, paths |-> {}]

Top == stack[Len(stack)]
Caller == Len(stack) - 1

\* `if normalized: paths.add(normalized)` in the calling visit_GraphExpr,
\* which then goes on to its next operand
Resume(st, normalized) ==
    IF st = << >> THEN st
    ELSE [st EXCEPT ![Len(st)].pos = @ + 1,
                    ![Len(st)].paths =
                        IF normalized # NoMember THEN @ \cup {normalized} ELSE @]

\* lines 313-319: visit_GraphExpr(path) is entered from the frames st, log
\* being the visits so far; with the budget exhausted it returns None at
\* once, otherwise it takes one from the budget and starts on its operands
EnterGraphExpr(st, log, path) ==
    LET budget == ext.recurse_subqueries
    IN IF Exhausted(budget)
       THEN /\ visits' = Append(log, [Visit(path, Len(st) + 1, budget)
                                         EXCEPT !.returned = TRUE])
            /\ stack' = Resume(st, NoMember)
            /\ ret' = NoMember
            /\ UNCHANGED ext
       ELSE /\ visits' = Append(log, Visit(path, Len(st) + 1, budget))
            /\ stack' = Append(st, Frame(path, Len(log) + 1))
            /\ ext' = [ext EXCEPT !.recurse_subqueries = @ - 1]
            /\ UNCHANGED ret

\* PathExtractor.run(path): the extractor visits the outermost GraphExpr
StartVisit ==
    /\ stack = << >> /\ visits = << >>
    /\ EnterGraphExpr(<< >>, << >>, 1)
    /\ call' = [fn |-> "visit_GraphExpr", path |-> 1]
    /\ UNCHANGED << copyVars, combVars, gx, indexVars, lp, inferVars, texpr >>

\* lines 321-338: one self.visit(...) of the visit_GraphExpr on top of the
\* stack.  An entity-set is its own result (line 366); a SubgraphRef is its
\* own result when the budget is zero and extract_subgraph_refs is set, and
\* is else the visit of the GraphExpr it refers to (lines 344-348); a
\* set-operation operand is a GraphExpr.
VisitOperand ==
    /\ stack # << >>
    /\ Top.pos <= Len(GraphOperands(gx[Top.path]))
    /\ LET m == GraphOperands(gx[Top.path])[Top.pos]
           seen == [visits EXCEPT ![Top.visit].operands = @ \cup {Top.pos}]
       IN IF m.t = "path" \/ (m.t = "ref" /\ ext.recurse_subqueries = 0
                                 /\ ext.extract_subgraph_refs)
          THEN /\ stack' = Resume(stack, m)
               /\ visits' = seen
               /\ call' = [fn |-> "visit", path |-> m.id]
               /\ UNCHANGED << ext, ret >>
          ELSE /\ EnterGraphExpr(stack, seen, m.id)
               /\ call' = [fn |-> "visit_GraphExpr", path |-> m.id]
    /\ UNCHANGED << copyVars, combVars, gx, indexVars, lp, inferVars, texpr >>

\* lines 340-342: the operands are done; the budget gets its one back and
\* the results are combined (a Disjunction when there are several)
LeaveGraphExpr ==
    /\ stack # << >>
    /\ Top.pos > Len(GraphOperands(gx[Top.path]))
    /\ LET budget == ext.recurse_subqueries + 1
           out == CombineOp(comb, Top.paths, "Disjunction", TRUE)
       IN /\ ext' = [ext EXCEPT !.recurse_subqueries = budget]
          /\ comb' = out.heap
          /\ ret' = out.ret
          /\ visits' = [visits EXCEPT ![Top.visit].exit = budget,
                                      ![Top.visit].returned = TRUE,
                                      ![Top.visit].ret = out.ret]
          /\ stack' = Resume(SubSeq(stack, 1, Caller), out.ret)
    /\ pre' = comb
    /\ call' = [fn |-> "return", path |-> Top.path]
    /\ UNCHANGED << copyVars, gx, indexVars, lp, inferVars, texpr >>

\* The IR tree handed to the extractor: GraphExpr 1 is the outermost query,
\* GraphExpr h > 1 is a subquery of GraphExpr parent[h], held by a
\* SubgraphRef in the field slot[h] or, for set_op, directly as one of the
\* two operands of a set operation; the GraphExprs in leaves select an
\* entity-set besides.
Slots == {"generator", "selector", "grouper", "sorter", "set_op"}

RECURSIVE Ascending(_)
Ascending(S) ==
    IF S = {} THEN << >>
    ELSE LET h == CHOOSE x \in S : \A y \in S : x <= y
         IN << h >> \o Ascending(S \ {h})

SubqueriesAt(g, s, parent, slot) ==
    Ascending({h \in DOMAIN parent : parent[h] = g /\ slot[h] = s})

TreeNode(g, parent, slot, leaves) ==
    LET at(s) == SubqueriesAt(g, s, parent, slot)
        refs(s) == [i \in 1..Len(at(s)) |-> SubgraphRef(at(s)[i])]
        leaf == IF g \in leaves THEN << Path((g % 2) + 1) >> ELSE << >>
    IN GraphExpr(IF at("generator") # << >> THEN refs("generator")[1]
                 ELSE NoMember,
                 leaf \o refs("selector"), refs("grouper"), refs("sorter"),
                 IF at("set_op") # << >> THEN "UNION" ELSE NoName,
                 IF at("set_op") # << >> THEN at("set_op")[1] ELSE None,
                 IF at("set_op") # << >> THEN at("set_op")[2] ELSE None)

WellFormed(n, parent, slot) ==
    /\ \A h \in 2..n : parent[h] < h
    /\ \A g \in 1..n :
          /\ Len(SubqueriesAt(g, "generator", parent, slot)) <= 1
          /\ Len(SubqueriesAt(g, "set_op", parent, slot)) \in {0, 2}

InitVisit ==
    /\ \E n \in 1..MaxGraphs :
          \E parent \in [2..n -> 1..n], slot \in [2..n -> Slots],
             leaves \in SUBSET (1..n) :
                /\ WellFormed(n, parent, slot)
                /\ gx = [g \in 1..n |-> TreeNode(g, parent, slot, leaves)]
    /\ \E recurse_subqueries \in (-1)..MaxBudget, extract_subgraph_refs \in BOOLEAN :
          ext = PathExtractorOn(recurse_subqueries, extract_subgraph_refs)
    /\ stack = << >> /\ visits = << >>
    /\ comb = << >> /\ pre = << >>
    /\ ret = NoMember /\ call = [fn |-> "none"]
    /\ IdleCopy /\ IdleIndex /\ IdlePath /\ IdleInfer /\ IdleType

NextVisit ==
    \/ StartVisit
    \/ VisitOperand
    \/ LeaveGraphExpr

SpecVisit == InitVisit /\ [][NextVisit]_vars

(***************************************************************************)
(* Claims about the subquery budget                                        *)
(***************************************************************************)
\* the budget the extractor was made with: the outermost visit began with it
InitialBudget == visits[1].entry

\* C11: the budget is restored: when the visit of a query expression has
\* returned, recurse_subqueries has the value it had when that visit began;
\* while the visit_GraphExpr of a query expression nested d levels deep (the
\* outermost being at level 1) is visiting its operands, that is whenever it
\* is on top of the stack, the budget is the initial value minus d, and
\* when no visit is in progress it is the initial value; and a query
\* expression reached with a budget <= 0 returns None without any of its
\* operands being visited.
C11_BudgetRestored ==
    /\ \A v \in DOMAIN visits :
          /\ visits[v].returned => visits[v].exit = visits[v].entry
          /\ visits[v].entry <= 0 =>
                /\ visits[v].returned /\ visits[v].ret = NoMember
                /\ visits[v].operands = {}
                /\ \A i \in DOMAIN stack : stack[i].visit # v
    /\ stack # << >> =>
          /\ Top.visit \in DOMAIN visits /\ visits[Top.visit].depth = Len(stack)
          /\ ext.recurse_subqueries = InitialBudget - Len(stack)
          /\ ext.recurse_subqueries = visits[Top.visit].entry - 1
    /\ (stack = << >> /\ visits # << >>) =>
          ext.recurse_subqueries = InitialBudget

\* the walk is over: a subquery at level 2 was visited with its operands and
\* gave the budget back, and a subquery below it, which has operands, was
\* reached with the budget used up
C11_Witness ==
    /\ stack = << >> /\ visits # << >>
    /\ \E v, w \in DOMAIN visits :
          /\ visits[v].depth = 2 /\ visits[v].entry = 1
          /\ visits[v].returned /\ visits[v].operands # {}
          /\ visits[w].depth = 3 /\ visits[w].entry = 0
          /\ GraphOperands(gx[visits[w].path]) # << >>

(***************************************************************************)
(* LinearPath (a list subclass): a sequence alternating node-types and     *)
(* (link, direction) steps                                                 *)
(***************************************************************************)
MaxPathLen == 3                 \* elements of a LinearPath

PathNames == {1, 2}             \* the LinearPath objects
Concepts == {"Person", "Pet"}
Directions == {">", "<"}
\* link prototypes: a generic link, and a link that is not generic and has
\* the generic link as its first base
Links == {[name |-> "owns", generic |-> TRUE, base |-> "owns"],
          [name |-> "Person.owns", generic |-> FALSE, base |-> "owns"],
          [name |-> "likes", generic |-> TRUE, base |-> "likes"]}

ConceptElem(c) == [kind |-> "concept", name |-> c, direction |-> NoName]
StepElem(link, direction) ==
    [kind |-> "step", name |-> link, direction |-> direction]

\* lines 429-448: LinearPath.__eq__ with other a LinearPath.  The loop
\* "for i in range(1, len(self) - 1, 2)" compares the elements i and i + 1
\* (counted from 0), and answers True when it ends without a break.
LinearPathEq(self, other) ==
    IF Len(other) # Len(self) THEN FALSE
    ELSE IF Len(self) = 0 THEN TRUE
    ELSE IF self[1] # other[1] THEN FALSE
    ELSE \A i \in {j \in 1..(Len(self) - 2) : j % 2 = 1} :
            self[i + 1] = other[i + 1] /\ self[i + 2] = other[i + 2]

\* lines 450-454: LinearPath.add
AddOp(self, link, direction, target) ==
    LET l == IF ~link.generic THEN link.base ELSE link.name
    IN self \o << StepElem(l, direction), ConceptElem(target) >>

\* list.append of a node-type, as get_path_id (line 497) does
append(p, concept) ==
    /\ Len(lp[p]) + 1 <= MaxPathLen
    /\ lp' = [lp EXCEPT ![p] = Append(@, ConceptElem(concept))]
    /\ call' = [fn |-> "append", self |-> p, other |-> p]
    /\ UNCHANGED << copyVars, combVars, ret, ext, indexVars, inferVars, visitVars, texpr >>

add(p, link, direction, target) ==
    /\ Len(lp[p]) + 2 <= MaxPathLen
    /\ lp' = [lp EXCEPT ![p] = AddOp(@, link, direction, target)]
    /\ call' = [fn |-> "add", self |-> p, other |-> p]
    /\ UNCHANGED << copyVars, combVars, ret, ext, indexVars, inferVars, visitVars, texpr >>

\* p == q
eq(p, q) ==
    /\ ret' = LinearPathEq(lp[p], lp[q])
    /\ call' = [fn |-> "__eq__", self |-> p, other |-> q]
    /\ UNCHANGED << copyVars, combVars, ext, indexVars, lp, inferVars, visitVars, texpr >>

InitPath ==
    /\ lp = [p \in PathNames |-> << >>]
    /\ ret = FALSE /\ call = [fn |-> "none"]
    /\ IdleCopy /\ IdleComb /\ IdleExt /\ IdleVisit /\ IdleType /\ IdleIndex /\ IdleInfer

NextPath ==
    \/ \E p \in PathNames, c \in Concepts : append(p, c)
    \/ \E p \in PathNames, l \in Links, d \in Directions, c \in Concepts :
          add(p, l, d, c)
    \/ \E p \in PathNames, q \in PathNames : eq(p, q)

SpecPath == InitPath /\ [][NextPath]_vars

MaxOps == 2                     \* binary operators in a tree

ParamIdx == {0, 1}              \* parameter indexes $0, $1
NoIndex == -1                   \* Constant.index is None

Scalar(name) == [coll |-> "scalar", name |-> name]
SetOf(t) == [coll |-> "set", name |-> t.name]   \* s_obj.Set(element_type=t)
NoType == Scalar(NoName)                        \* None
StdStr == Scalar("std::str")
StdBool == Scalar("std::bool")
StdInt == Scalar("std::int")

\* operands: a Constant carrying a parameter index (no type of its own), a
\* literal Constant without an index, and an expression that is no Constant
\* (a reference to a property of the given type)
Param(i) == [node |-> "Constant", index |-> i, type |-> NoType]
Literal(t) == [node |-> "Constant", index |-> NoIndex, type |-> t]
Ref(t) == [node |-> "AtomicRefSimple", index |-> NoIndex, type |-> t]
Operands == {Param(i) : i \in ParamIdx}
            \cup {Literal(StdInt), Ref(StdInt), Ref(StdStr)}

\* operator classes: irast.EdgeDBMatchOperator, ast.ops.ComparisonOperator,
\* ArithmeticOperator, MembershipOperator, BooleanOperator, and any other
OpClasses == {"match", "comparison", "arithmetic", "membership", "boolean",
              "other"}

BinOp(left, op, right) == [left |-> left, op |-> op, right |-> right]
IsConstant(n) == n.node = "Constant"

\* lines 41-46: the operators find_children keeps
flt(n) == IsConstant(n.left) \/ IsConstant(n.right)
BinOps == {b \in {BinOp(l, o, r) : l \in Operands, o \in OpClasses,
                                   r \in Operands} : flt(b)}

\* lines 147-151 and 107-122 of infer_type: a Constant without an expr has
\* its declared type, a property reference the type of the pointer's target
InferType(ir) == ir.type

\* lines 53-60: which operand is the argument
ChooseArg(binop) ==
    IF IsConstant(binop.right)
    THEN [expr |-> binop.left, arg |-> binop.right, reversed |-> FALSE]
    ELSE [expr |-> binop.right, arg |-> binop.left, reversed |-> TRUE]

\* lines 65-84: the type the operator gives the argument; raise is the
\* error raised instead
TypeFor(binop, expr, reversed) ==
    IF binop.op = "match" THEN [typ |-> StdStr, raise |-> "none"]
    ELSE IF binop.op \in {"comparison", "arithmetic"}
    THEN [typ |-> InferType(expr), raise |-> "none"]
    ELSE IF binop.op = "membership" /\ ~reversed
    THEN [typ |-> SetOf(InferType(expr)), raise |-> "none"]
    ELSE IF binop.op = "boolean" THEN [typ |-> StdBool, raise |-> "none"]
    ELSE [typ |-> NoType, raise |-> "unsupported operator"]

\* lines 51-98: the loop body for one operator; at is arg_types
InferStep(at, binop) ==
    LET c == ChooseArg(binop)
        t == TypeFor(binop, c.expr, c.reversed)
    IN IF c.arg.index = NoIndex
       THEN [arg_types |-> at, status |-> "running"]            \* continue
       ELSE IF t.raise # "none"
       THEN [arg_types |-> at, status |-> t.raise]
       ELSE IF t.typ = NoType
       THEN [arg_types |-> at, status |-> "cannot infer expr type"]
       ELSE IF at[c.arg.index] = NoType                          \* KeyError
       THEN [arg_types |-> [at EXCEPT ![c.arg.index] = t.typ],
             status |-> "running"]
       ELSE IF at[c.arg.index] # t.typ
       THEN [arg_types |-> at, status |-> "ambiguous resolution"]
       ELSE [arg_types |-> at, status |-> "running"]

\* one iteration of "for binop in ops"
VisitBinOp(binop) ==
    /\ status = "running" /\ Len(ops) < MaxOps
    /\ LET out == InferStep(arg_types, binop)
       IN arg_types' = out.arg_types /\ status' = out.status
    /\ ops' = Append(ops, binop)
    /\ UNCHANGED << copyVars, combVars, callVars, ext, indexVars, lp, visitVars, texpr >>

\* line 100: the loop is over, arg_types is returned
Return ==
    /\ status = "running"
    /\ status' = "returned"
    /\ UNCHANGED << copyVars, combVars, callVars, ext, indexVars, lp,
                    ops, arg_types, visitVars, texpr >>

InitInfer ==
    /\ ops = << >>
    /\ arg_types = [i \in ParamIdx |-> NoType]      \* line 48: {}
    /\ status = "running"
    /\ IdleCopy /\ IdleComb /\ IdleCall /\ IdleExt /\ IdleVisit /\ IdleType /\ IdleIndex /\ IdlePath

NextInfer ==
    \/ \E binop \in BinOps : VisitBinOp(binop)
    \/ Return

SpecInfer == InitInfer /\ [][NextInfer]_vars

(***************************************************************************)
(* Claims about infer_arg_types                                            *)
(***************************************************************************)
IsParam(n) == IsConstant(n) /\ n.index # NoIndex

\* exactly one side of b is a Constant carrying a parameter index
OneParam(b) == IsParam(b.left) # IsParam(b.right)
ParamOf(b) == IF IsParam(b.right) THEN b.right ELSE b.left
OtherOf(b) == IF IsParam(b.right) THEN b.left ELSE b.right

\* the type the rules of section 4.1 give the parameter of b
RuleType(b) ==
    IF b.op = "match" THEN StdStr
    ELSE IF b.op \in {"comparison", "arithmetic"} THEN InferType(OtherOf(b))
    ELSE IF b.op = "membership" /\ IsParam(b.right)
    THEN SetOf(InferType(OtherOf(b)))
    ELSE IF b.op = "boolean" THEN StdBool
    ELSE NoType

\* b binds its parameter to a type
Binds(b) == OneParam(b) /\ RuleType(b) # NoType

Visited == {ops[n] : n \in 1..Len(ops)}

\* C6: ambiguous parameter.  In a tree whose operators each bind a
\* parameter or hold none, two operators that bind one parameter index to
\* different types make infer_arg_types raise the conflict error, in
\* whatever order they are visited; and when it returns, an index of the
\* mapping has the type every operator binding it gives.
C6_AmbiguousParameter ==
    (status # "running"
     /\ \A b \in Visited : Binds(b) \/ (~IsParam(b.left) /\ ~IsParam(b.right)))
    =>
        /\ (\E a, b \in Visited :
               /\ Binds(a) /\ Binds(b)
               /\ ParamOf(a).index = ParamOf(b).index
               /\ RuleType(a) # RuleType(b))
           => status = "ambiguous resolution"
        /\ status = "returned" =>
              \A b \in Visited :
                  (Binds(b) /\ arg_types[ParamOf(b).index] # NoType) =>
                      arg_types[ParamOf(b).index] = RuleType(b)

\* C7: when infer_arg_types returns, every operator with exactly one side a
\* Constant carrying a parameter index, on the left or on the right and
\* whatever the other operand, and a pattern-match, comparison, arithmetic
\* or boolean operator, has its parameter index in the mapping: with the
\* string type for pattern-match, the inferred type of the other side for
\* comparison and arithmetic, the boolean type for a boolean operator.
C7_EveryParameterMapped ==
    status = "returned" =>
        \A b \in Visited :
            (OneParam(b)
             /\ b.op \in {"match", "comparison", "arithmetic", "boolean"}) =>
                /\ arg_types[ParamOf(b).index] # NoType
                /\ arg_types[ParamOf(b).index] = RuleType(b)

(***************************************************************************)
(* infer_type on operator expressions: a BinOp or a UnaryOp over typed     *)
(* Constants.  s_types.TypeRules is a table keyed by the operator (or the  *)
(* pair (operator, 'reversed')) and the tuple of operand types;            *)
(* get_result gives the rule's result type, or None when there is no rule. *)
(***************************************************************************)
MaxTypeDepth == 2               \* operators nested in an expression

BinaryOperators == {"+", "*", "AND", "=", "IS", "IN"}
UnaryOperators == {"-", "NOT"}

\* ast.ops.ComparisonOperator, TypeCheckOperator, MembershipOperator, and
\* the operators that are none of these
OpClass(op) ==
    IF op = "=" THEN "comparison"
    ELSE IF op = "IS" THEN "typecheck"
    ELSE IF op = "IN" THEN "membership"
    ELSE "other"

BinOpNode(left, op, right) ==
    [node |-> "BinOp", left |-> left, op |-> op, right |-> right]
UnaryOp(op, expr) == [node |-> "UnaryOp", op |-> op, expr |-> expr]

Rule(op, reversed, args, result) ==
    [op |-> op, reversed |-> reversed, args |-> args, result |-> result]

\* the rules of the schema: int + int, int * int, str + str,
\* bool AND bool, str * int (declared on int as a reversed rule), - int,
\* NOT bool
TypeRules ==
    {Rule("+", FALSE, << StdInt, StdInt >>, StdInt),
     Rule("*", FALSE, << StdInt, StdInt >>, StdInt),
     Rule("+", FALSE, << StdStr, StdStr >>, StdStr),
     Rule("AND", FALSE, << StdBool, StdBool >>, StdBool),
     Rule("*", TRUE, << StdInt, StdStr >>, StdStr),
     Rule("-", FALSE, << StdInt >>, StdInt),
     Rule("NOT", FALSE, << StdBool >>, StdBool)}

HasRule(op, reversed, args) ==
    \E r \in TypeRules : r.op = op /\ r.reversed = reversed /\ r.args = args

\* s_types.TypeRules.get_result(op, args, schema)
get_result(op, reversed, args) ==
    IF HasRule(op, reversed, args)
    THEN (CHOOSE r \in TypeRules :
             r.op = op /\ r.reversed = reversed /\ r.args = args).result
    ELSE NoType

Returned(result) == [result |-> result, raise |-> "none"]

\* lines 103-212: infer_type on a Constant (lines 147-151), a BinOp (lines
\* 153-165) and a UnaryOp (lines 167-170); line 212 returns result, None
\* included
RECURSIVE infer_type(_)
infer_type(e) ==
    IF e.node = "BinOp"
    THEN IF OpClass(e.op) \in {"comparison", "typecheck", "membership"}
         THEN Returned(StdBool)
         ELSE LET left == infer_type(e.left)
                  right == infer_type(e.right)
              IN IF left.raise # "none" THEN left
                 ELSE IF right.raise # "none" THEN right
                 ELSE LET left_type == left.result
                          right_type == right.result
                          result == get_result(e.op, FALSE,
                                               << left_type, right_type >>)
                      IN IF result = NoType
                         THEN Returned(get_result(e.op, TRUE,
                                           << right_type, left_type >>))
                         ELSE Returned(result)
    ELSE IF e.node = "UnaryOp"
    THEN LET operand == infer_type(e.expr)
         IN IF operand.raise # "none" THEN operand
            ELSE Returned(get_result(e.op, FALSE, << operand.result >>))
    ELSE Returned(InferType(e))

\* the expressions: typed literals, and operators over them nested up to d
\* deep along one operand
TypedLiterals == {Literal(t) : t \in {StdInt, StdStr, StdBool}}

RECURSIVE Expressions(_)
Expressions(d) ==
    IF d = 0 THEN TypedLiterals
    ELSE LET S == Expressions(d - 1)
         IN S \cup {BinOpNode(l, o, r) :
                       l \in S, o \in BinaryOperators, r \in TypedLiterals}
              \cup {BinOpNode(l, o, r) :
                       l \in TypedLiterals, o \in BinaryOperators, r \in S}
              \cup {UnaryOp(o, x) : o \in UnaryOperators, x \in S}

InferTypeCall ==
    /\ call.fn = "none"
    /\ ret' = infer_type(texpr)
    /\ call' = [fn |-> "infer_type"]
    /\ UNCHANGED << copyVars, combVars, ext, indexVars, lp, inferVars,
                    visitVars, texpr >>

InitType ==
    /\ texpr \in Expressions(MaxTypeDepth)
    /\ ret = None /\ call = [fn |-> "none"]
    /\ IdleCopy /\ IdleComb /\ IdleExt /\ IdleVisit /\ IdleIndex /\ IdlePath
    /\ IdleInfer

NextType == InferTypeCall

SpecType == InitType /\ [][NextType]_vars

(***************************************************************************)
(* Claims about infer_type                                                 *)
(***************************************************************************)
\* the operand types of the operator at the top of texpr, when their inference
\* returned
OperandTypes ==
    IF texpr.node = "BinOp"
    THEN << infer_type(texpr.left).result, infer_type(texpr.right).result >>
    ELSE << infer_type(texpr.expr).result >>

\* texpr is a binary operator that is no comparison, type check or membership
\* test and has neither a forward nor a reversed rule for its operand
\* types, or a unary operator without a rule for its operand type
WithoutRule ==
    \/ /\ texpr.node = "BinOp"
       /\ OpClass(texpr.op) \notin {"comparison", "typecheck", "membership"}
       /\ ~HasRule(texpr.op, FALSE, OperandTypes)
       /\ ~HasRule(texpr.op, TRUE, << OperandTypes[2], OperandTypes[1] >>)
    \/ /\ texpr.node = "UnaryOp"
       /\ ~HasRule(texpr.op, FALSE, OperandTypes)

\* C13: no type-inference failure is swallowed: infer_type applied to an
\* operator without a rule for its operand types raises a type-inference
\* error; it does not return None.
C13_NoSwallowedFailure ==
    (call.fn = "infer_type" /\ WithoutRule) =>
        /\ ret.raise # "none"
        /\ ret # Returned(NoType)

====
